---------------------------- MODULE Spec2Model ----------------------------
(***************************************************************************)
(* Bid computation of the two GSP bidding agents of the repository:        *)
(*   rscbb      (src/rscbb.py)      balanced bidding                        *)
(*   rscbudget  (src/rscbudget.py)  budget pacing                           *)
(*                                                                         *)
(* One decision is a pure function of (t, history, reserve) and the        *)
(* agent's fields.  The state holds the inputs of one decision and the     *)
(* outcome of the method that was called on them.                          *)
(*                                                                         *)
(* Numbers.  Bids, values and reserves are integers.  Everything the code  *)
(* computes in floating point (position effects, utilities, the balanced   *)
(* bid, the midpoint) is a dyadic rational that a double holds exactly for *)
(* the sizes modelled here, so it is modelled as an exact rational         *)
(* <<numerator, denominator>> in lowest terms with denominator > 0.        *)
(*                                                                         *)
(* A call either returns or raises: an outcome is [err, val] with          *)
(* err = "ok" and val the returned value, or err the name of the           *)
(* exception raised and val = <<>>.                                         *)
(***************************************************************************)
EXTENDS Integers, Sequences, FiniteSets, TLC

VARIABLES
    agent,       \* [id, value]: self.id, self.value (self.budget is never read)
    t,           \* the round being decided
    reserve,     \* the reserve price
    prev_round,  \* history.round(t-1): [bids : Seq(<<a_id, b>>), clicks : Seq(Nat)]
    pc,          \* "ready": inputs chosen, "done": a method has been called
    op,          \* the method that was called
    out          \* its outcome

vars == <<agent, t, reserve, prev_round, pc, op, out>>

-----------------------------------------------------------------------------
(* Bounds of the model *)

MaxCompetitors == 3
MaxSlots == 3
MaxT == 36

-----------------------------------------------------------------------------
(* Outcomes *)

Return(v) == [err |-> "ok", val |-> v]
Failure(e) == [err |-> e, val |-> <<>>]

\* Python's None, as bid_range_for_slot reports it for "no upper bound".
None == -1

-----------------------------------------------------------------------------
(* Exact rationals *)

RECURSIVE GCD(_, _)
GCD(a, b) == IF b = 0 THEN a ELSE GCD(b, a % b)

Abs(x) == IF x < 0 THEN -x ELSE x

Rat(n, d) ==
    LET s == IF d < 0 THEN -1 ELSE 1
        g == GCD(Abs(n), Abs(d))
    IN  <<(s * n) \div g, (s * d) \div g>>

RatInt(n) == <<n, 1>>
RatSub(a, b) == Rat(a[1] * b[2] - b[1] * a[2], a[2] * b[2])
RatMul(a, b) == Rat(a[1] * b[1], a[2] * b[2])
RatDiv(a, b) == Rat(a[1] * b[2], a[2] * b[1])
RatLT(a, b) == a[1] * b[2] < b[1] * a[2]
RatLE(a, b) == a[1] * b[2] <= b[1] * a[2]

RECURSIVE RatPow(_, _)
RatPow(a, j) == IF j = 0 THEN RatInt(1) ELSE RatMul(a, RatPow(a, j - 1))

-----------------------------------------------------------------------------
(* Python list helpers *)

\* sorted(l, reverse=..., key=lambda x: x[1]): a stable sort.
RECURSIVE insert(_, _, _)
insert(x, s, reverse) ==
    IF s = <<>> THEN <<x>>
    ELSE IF (IF reverse THEN x[2] > Head(s)[2] ELSE x[2] < Head(s)[2])
         THEN <<x>> \o s
         ELSE <<Head(s)>> \o insert(x, Tail(s), reverse)

RECURSIVE sorted(_, _)
sorted(l, reverse) ==
    IF l = <<>> THEN <<>>
    ELSE insert(l[Len(l)], sorted(SubSeq(l, 1, Len(l) - 1), reverse), reverse)


-----------------------------------------------------------------------------
(* External collaborators (gsp.py, util.py): not among the sources, modelled *)
(* from the specification's sections 4.1, 4.3 and 6.                         *)

\* GSP.bid_range_for_slot(slot, clicks, reserve, bids) -> (min_bid, max_bid):
\* the competitor bids that reach the reserve are ranked from the highest;
\* min_bid is the bid of the competitor occupying the slot (the reserve when
\* no competitor occupies it), max_bid the bid of the competitor one slot
\* above, and None for slot 0.
bid_range_for_slot(slot, clicks, reserve_, bids) ==
    LET valid == sorted(SelectSeq(bids, LAMBDA bt : bt[2] >= reserve_), TRUE)
        at(s) == IF s < Len(valid) THEN valid[s + 1][2] ELSE reserve_
    IN  <<at(slot), IF slot = 0 THEN None ELSE at(slot - 1)>>

\* util.argmax_index(values): the index of the first maximal member; raises
\* on an empty list.
argmax_index(values) ==
    IF values = <<>> THEN Failure("ValueError")
    ELSE Return((CHOOSE i \in 1..Len(values) :
                    /\ \A j \in 1..Len(values) : RatLE(values[j], values[i])
                    /\ \A j \in 1..(i - 1) : RatLT(values[j], values[i])) - 1)

-----------------------------------------------------------------------------
(* Program constants *)

decay == <<3, 4>>        \* .75
period_1_end == 12
period_2_end == 35
alpha == 40
epsilon == 10

\* round(30 * math.cos(math.pi * t / 24) + 50) for t = 0..47 (period 48).
BaseClickTable ==
    <<80, 80, 79, 78, 76, 74, 71, 68, 65, 61, 58, 54,
      50, 46, 42, 39, 35, 32, 29, 26, 24, 22, 21, 20,
      20, 20, 21, 22, 24, 26, 29, 32, 35, 39, 42, 46,
      50, 54, 58, 61, 65, 68, 71, 74, 76, 78, 79, 80>>

c_1_t(t_) == BaseClickTable[(t_ % Len(BaseClickTable)) + 1]

-----------------------------------------------------------------------------
(* class rscbb *)

\* The bids of the round with the agent's own bid left in.
rscbb_other_bids_unfiltered(self, round) == round.bids

\* other_bids = filter(lambda (a_id, b): a_id != self.id, prev_round.bids)
rscbb_other_bids(self, round) ==
    SelectSeq(round.bids, LAMBDA bt : bt[1] # self.id)

\* compute(s) inside slot_info
rscbb_compute(s, clicks, reserve_, others) ==
    LET r == bid_range_for_slot(s, clicks, reserve_, others)
        min == r[1]
        max == IF r[2] = None THEN 2 * min ELSE r[2]
    IN  <<s, min, max>>

\* slot_info: map(compute, range(len(clicks)))
rscbb_slot_info(self, t_, round, reserve_) ==
    LET others == rscbb_other_bids(self, round)
        clicks == round.clicks
    IN  [k \in 1..Len(clicks) |-> rscbb_compute(k - 1, clicks, reserve_, others)]

\* [c_1_t * (.75 ** j) for j in range(n_positions)]
rscbb_compute_position_effects(t_, n_positions) ==
    [k \in 1..n_positions |-> RatMul(RatInt(c_1_t(t_)), RatPow(decay, k - 1))]

rscbb_expected_utils(self, t_, round, reserve_) ==
    LET others == rscbb_other_bids(self, round)
        ranked_bids == sorted(others, TRUE)
        prices == [k \in 1..Len(ranked_bids) |-> ranked_bids[k][2]]
        position_effects == rscbb_compute_position_effects(t_, Len(prices))
    IN  [k \in 1..Len(prices) |->
            RatMul(position_effects[k], RatInt(self.value - prices[k]))]

rscbb_target_slot(self, t_, round, reserve_) ==
    LET i == argmax_index(rscbb_expected_utils(self, t_, round, reserve_))
        info == rscbb_slot_info(self, t_, round, reserve_)
    IN  IF i.err # "ok" THEN i
        ELSE IF i.val >= Len(info) THEN Failure("IndexError")
        ELSE Return(info[i.val + 1])

\* The balanced bid with the ratio of position effects inverted.
rscbb_balanced_inverted(self, t_, slot, min_bid) ==
    LET pos == rscbb_compute_position_effects(t_, slot + 1)
    IN  IF pos[slot + 1][1] = 0 THEN Failure("ZeroDivisionError")
        ELSE Return(RatSub(RatInt(self.value),
                           RatMul(RatDiv(pos[slot], pos[slot + 1]),
                                  RatInt(self.value - min_bid))))

\* pos = compute_position_effects(t, slot + 1)
\* bid = self.value - (pos[slot] / pos[slot - 1]) * (self.value - min_bid)
rscbb_balanced(self, t_, slot, min_bid) ==
    LET pos == rscbb_compute_position_effects(t_, slot + 1)
    IN  IF pos[slot][1] = 0 THEN Failure("ZeroDivisionError")
        ELSE Return(RatSub(RatInt(self.value),
                           RatMul(RatDiv(pos[slot + 1], pos[slot]),
                                  RatInt(self.value - min_bid))))

\* The choice without its first branch (min_bid > self.value).
rscbb_choose_no_ceiling(self, t_, slot, min_bid, max_bid) ==
    IF slot > 0 THEN rscbb_balanced(self, t_, slot, min_bid)
    ELSE Return(RatInt(self.value))

\* The choice bidding the slot's max_bid for the top slot.
rscbb_choose_top_max(self, t_, slot, min_bid, max_bid) ==
    IF min_bid > self.value THEN Return(RatInt(self.value))
    ELSE IF slot > 0 THEN rscbb_balanced(self, t_, slot, min_bid)
    ELSE Return(RatInt(max_bid))

\* The if / elif / else of bid on the targeted (slot, min_bid, max_bid).
rscbb_choose(self, t_, slot, min_bid, max_bid) ==
    IF min_bid > self.value THEN Return(RatInt(self.value))
    ELSE IF slot > 0 THEN rscbb_balanced(self, t_, slot, min_bid)
    ELSE Return(RatInt(self.value))

rscbb_bid(self, t_, round, reserve_) ==
    LET ts == rscbb_target_slot(self, t_, round, reserve_)
    IN  IF ts.err # "ok" THEN ts
        ELSE rscbb_choose(self, t_, ts.val[1], ts.val[2], ts.val[3])

-----------------------------------------------------------------------------
(* class rscbudget *)

rscbudget_other_bids(self, round) ==
    SelectSeq(round.bids, LAMBDA bt : bt[1] # self.id)

rscbudget_compute(s, clicks, reserve_, others) ==
    LET r == bid_range_for_slot(s, clicks, reserve_, others)
        min == r[1]
        max == IF r[2] = None THEN 2 * min ELSE r[2]
    IN  <<s, min, max>>

rscbudget_slot_info(self, t_, round, reserve_) ==
    LET others == rscbudget_other_bids(self, round)
        clicks == round.clicks
    IN  [k \in 1..Len(clicks) |-> rscbudget_compute(k - 1, clicks, reserve_, others)]

rscbudget_compute_position_effects(t_, n_positions) ==
    [k \in 1..n_positions |-> RatMul(RatInt(c_1_t(t_)), RatPow(decay, k - 1))]

rscbudget_expected_utils(self, t_, round, reserve_) ==
    LET others == rscbudget_other_bids(self, round)
        ranked_bids == sorted(others, TRUE)
        prices == [k \in 1..Len(ranked_bids) |-> ranked_bids[k][2]]
        position_effects == rscbudget_compute_position_effects(t_, Len(prices))
    IN  [k \in 1..Len(prices) |->
            RatMul(position_effects[k], RatInt(self.value - prices[k]))]

rscbudget_target_slot(self, t_, round, reserve_) ==
    LET i == argmax_index(rscbudget_expected_utils(self, t_, round, reserve_))
        info == rscbudget_slot_info(self, t_, round, reserve_)
    IN  IF i.err # "ok" THEN i
        ELSE IF i.val >= Len(info) THEN Failure("IndexError")
        ELSE Return(info[i.val + 1])

\* sorted_bids = sorted(other_bids, reverse=False, key=lambda x: x[1])
rscbudget_sorted_bids(self, round) ==
    sorted(rscbudget_other_bids(self, round), FALSE)

\* The scan "for i in range(len(sorted_bids))": the value of optimal_index
\* after iterations 0..n-1, None when no iteration assigned it.
RECURSIVE rscbudget_scan(_, _)
rscbudget_scan(sorted_bids, n) ==
    IF n = 0 THEN None
    ELSE LET i == n - 1
             prev == rscbudget_scan(sorted_bids, n - 1)
         IN  IF i = Len(sorted_bids) - 1
             THEN (IF sorted_bids[i + 1][2] > alpha THEN i ELSE prev)
             ELSE IF sorted_bids[i + 1][2] > alpha /\ sorted_bids[i + 2][2] < alpha * 2
                  THEN i
                  ELSE prev

\* A scan that keeps its first match (as if the loop left at a match).
RECURSIVE rscbudget_scan_first(_, _)
rscbudget_scan_first(sorted_bids, n) ==
    IF n = 0 THEN None
    ELSE LET i == n - 1
             prev == rscbudget_scan_first(sorted_bids, n - 1)
         IN  IF prev # None THEN prev
             ELSE IF i = Len(sorted_bids) - 1
             THEN (IF sorted_bids[i + 1][2] > alpha THEN i ELSE prev)
             ELSE IF sorted_bids[i + 1][2] > alpha /\ sorted_bids[i + 2][2] < alpha * 2
                  THEN i
                  ELSE prev

\* The scan with its first match kept.
rscbudget_optimal_index_first(sorted_bids) ==
    rscbudget_scan_first(sorted_bids, Len(sorted_bids))

\* The scan one iteration short: range(len(sorted_bids) - 1).
rscbudget_optimal_index_short(sorted_bids) ==
    IF sorted_bids = <<>> THEN None
    ELSE rscbudget_scan(sorted_bids, Len(sorted_bids) - 1)

rscbudget_optimal_index(sorted_bids) == rscbudget_scan(sorted_bids, Len(sorted_bids))

\* The cool-down test with its lower end off by one.
rscbudget_in_cool_down_late(t_) == t_ > period_1_end + 1 /\ t_ < period_2_end

\* if t > period_1_end and t < period_2_end
rscbudget_in_cool_down(t_) == t_ > period_1_end /\ t_ < period_2_end

\* The statements of bid after sorted_bids is built (the if/else on t).
rscbudget_policy(t_, sorted_bids) ==
    LET n == Len(sorted_bids)
    IN  IF rscbudget_in_cool_down(t_) THEN Return(RatInt(epsilon))
        ELSE
          LET optimal_index == rscbudget_optimal_index(sorted_bids)
          IN  IF optimal_index = None
              THEN (IF n = 0 THEN Failure("IndexError")
                    ELSE Return(RatInt(sorted_bids[n][2] + epsilon)))
              ELSE IF optimal_index = 0
              THEN Return(RatInt(sorted_bids[optimal_index + 1][2] + epsilon))
              ELSE Return(Rat(sorted_bids[optimal_index + 1][2]
                                + sorted_bids[optimal_index][2], 2))

\* bid testing the epoch before it calls target_slot.
rscbudget_bid_epoch_first(self, t_, round, reserve_) ==
    IF rscbudget_in_cool_down(t_) THEN Return(RatInt(epsilon))
    ELSE LET ts == rscbudget_target_slot(self, t_, round, reserve_)
         IN  IF ts.err # "ok" THEN ts
             ELSE rscbudget_policy(t_, rscbudget_sorted_bids(self, round))

rscbudget_bid(self, t_, round, reserve_) ==
    LET ts == rscbudget_target_slot(self, t_, round, reserve_)
    IN  IF ts.err # "ok" THEN ts
        ELSE rscbudget_policy(t_, rscbudget_sorted_bids(self, round))

-----------------------------------------------------------------------------
(* Inputs of one decision *)

\* Competitor bids of round t-1, self.value, reserve prices and rounds the
\* three specifications draw from.
Amounts == {30, 40, 45, 60, 80, 90}
BudgetAmounts == {30, 40, 45, 80, 90}
BBAmounts == {0, 40, 45, 60}
OwnAmounts == {95}                     \* the agent's own bid of round t-1
Values == {45, 100}
Reserves == {0, 50}
AllRounds == 1..MaxT
\* The first and last round of each epoch, and the round of the lowest
\* click rate.
EpochRounds ==
    {1, period_1_end, period_1_end + 1, 24, period_2_end - 1, period_2_end, MaxT}

\* Click counts of k slots, weakly decreasing: <<5k, ..., 10, 5>>.
ClicksOf(k) == [s \in 1..k |-> 5 * (k - s + 1)]

\* Round t-1: n competitors bidding f[1..n], the agent itself at position p
\* of the bid list with bid a; agent ids are the positions.
RoundOf(n, f, p, a, k) ==
    [bids   |-> [j \in 1..(n + 1) |->
                    <<j, IF j = p THEN a ELSE f[IF j < p THEN j ELSE j - 1]>>],
     clicks |-> ClicksOf(k)]

InitWith(Ts, Amts, Ress) ==
    \E n \in 0..MaxCompetitors, k \in 1..MaxSlots :
      \E f \in [1..n -> Amts], p \in {1, n + 1}, a \in OwnAmounts :
        \E v \in Values, r \in Ress, tt \in Ts :
          /\ agent = [id |-> p, value |-> v]
          /\ t = tt
          /\ reserve = r
          /\ prev_round = RoundOf(n, f, p, a, k)
          /\ pc = "ready"
          /\ op = "none"
          /\ out = Return(<<>>)

Init == InitWith(EpochRounds, Amounts, Reserves)
InitBB == InitWith(AllRounds, BBAmounts, Reserves)
InitBudget == InitWith(AllRounds, BudgetAmounts, {0})

-----------------------------------------------------------------------------
(* One action per method *)

Call(name, outcome) ==
    /\ pc = "ready"
    /\ pc' = "done"
    /\ op' = name
    /\ out' = outcome
    /\ UNCHANGED <<agent, t, reserve, prev_round>>

BB_slot_info ==
    Call("rscbb.slot_info", Return(rscbb_slot_info(agent, t, prev_round, reserve)))

BB_expected_utils ==
    Call("rscbb.expected_utils",
         Return(rscbb_expected_utils(agent, t, prev_round, reserve)))

BB_target_slot ==
    Call("rscbb.target_slot", rscbb_target_slot(agent, t, prev_round, reserve))

BB_bid ==
    Call("rscbb.bid", rscbb_bid(agent, t, prev_round, reserve))

Budget_slot_info ==
    Call("rscbudget.slot_info",
         Return(rscbudget_slot_info(agent, t, prev_round, reserve)))

Budget_expected_utils ==
    Call("rscbudget.expected_utils",
         Return(rscbudget_expected_utils(agent, t, prev_round, reserve)))

Budget_target_slot ==
    Call("rscbudget.target_slot",
         rscbudget_target_slot(agent, t, prev_round, reserve))

Budget_bid ==
    Call("rscbudget.bid", rscbudget_bid(agent, t, prev_round, reserve))

Next ==
    \/ BB_slot_info
    \/ BB_expected_utils
    \/ BB_target_slot
    \/ BB_bid
    \/ Budget_slot_info
    \/ Budget_expected_utils
    \/ Budget_target_slot
    \/ Budget_bid

NextBB ==
    \/ BB_slot_info
    \/ BB_expected_utils
    \/ BB_target_slot
    \/ BB_bid

NextBudget ==
    \/ Budget_slot_info
    \/ Budget_expected_utils
    \/ Budget_target_slot
    \/ Budget_bid

Spec == Init /\ [][Next]_vars
SpecBB == InitBB /\ [][NextBB]_vars
SpecBudget == InitBudget /\ [][NextBudget]_vars

-----------------------------------------------------------------------------
(* Views of the state the properties below are stated on *)

\* The competitor bids of round t-1, stated from the state: every bid of
\* the round that is not the agent's own.
Competitors ==
    SelectSeq(prev_round.bids, LAMBDA bt : bt[1] # agent.id)

\* The competitor bid amounts in ascending order.
Ascending ==
    LET srt == sorted(Competitors, FALSE)
    IN  [k \in 1..Len(srt) |-> srt[k][2]]

Returned(name) == pc = "done" /\ op = name /\ out.err = "ok"
Raised(name) == pc = "done" /\ op = name /\ out.err # "ok"
InCoolDown == period_1_end < t /\ t < period_2_end


-----------------------------------------------------------------------------
(* Properties of rscbudget.bid, under SpecBudget *)

BudgetBidCalled == pc = "done" /\ op = "rscbudget.bid"

\* optimal_index as bid computes it on the state's round.
OptimalIndex == rscbudget_optimal_index(rscbudget_sorted_bids(agent, prev_round))

\* The rule in words: the highest-ranked entry of the ascending list that
\* exceeds alpha while the next-higher entry does not exceed 2 * alpha (the
\* topmost entry: exceeds alpha); None when no entry qualifies.  0-based.
HighestByRule ==
    LET A == Ascending
        n == Len(A)
        S == {i \in 1..n : A[i] > alpha /\ (i = n \/ A[i + 1] <= 2 * alpha)}
    IN  IF S = {} THEN None
        ELSE (CHOOSE i \in S : \A j \in S : j <= i) - 1

C1_Rule ==
    (BudgetBidCalled /\ ~InCoolDown) => OptimalIndex = HighestByRule

C1_Midpoint ==
    (Returned("rscbudget.bid") /\ ~InCoolDown /\ HighestByRule > 0)
        => out.val = Rat(Ascending[HighestByRule + 1] + Ascending[HighestByRule], 2)

C1_Example == Returned("rscbudget.bid") /\ t = 1 /\ Ascending = <<30, 45, 90>>

\* C1 as stated: the rule for the optimal index, the midpoint below it, and
\* for competitor bids [30, 45, 90] at t = 1 the optimal index is the entry
\* 45 and the returned bid is 37.5.
C1_AsStated ==
    /\ C1_Rule
    /\ C1_Midpoint
    /\ C1_Example => (OptimalIndex = 1 /\ out.val = <<75, 2>>)

\* C1 amended: the rule for the optimal index and the midpoint below it
\* hold; for competitor bids [30, 45, 90] at t = 1 the optimal index is the
\* topmost entry 90 and the returned bid is the midpoint of 90 and 45, 67.5.
C1_Amended ==
    /\ C1_Rule
    /\ C1_Midpoint
    /\ C1_Example => (OptimalIndex = 2 /\ out.val = <<135, 2>>)

C1_Witness ==
    /\ C1_Example
    /\ out = Return(<<135, 2>>)

\* The rank bid's target_slot takes from the utilities, and whether it is a
\* slot of the round.
BudgetTargetIndex ==
    argmax_index(rscbudget_expected_utils(agent, t, prev_round, reserve))

BudgetTargetIsSlot ==
    /\ BudgetTargetIndex.err = "ok"
    /\ BudgetTargetIndex.val < Len(prev_round.clicks)

WithEntry(k, x) ==
    LET srt == rscbudget_sorted_bids(agent, prev_round)
    IN  [j \in 1..Len(srt) |-> IF j = k THEN <<srt[j][1], x>> ELSE srt[j]]

C7_ValueIndependent ==
    BudgetBidCalled
        => \A v2 \in Values :
              LET other == [agent EXCEPT !.value = v2]
              IN  /\ rscbudget_bid(other, t, prev_round, reserve).err = out.err
                  /\ rscbudget_bid(other, t, prev_round, reserve).val = out.val

-----------------------------------------------------------------------------
(* Properties of rscbb.bid, under SpecBB *)

\* The (slot, min_bid, max_bid) that bid targets on the state's inputs.
BBTarget == rscbb_target_slot(agent, t, prev_round, reserve).val

\* effect[j] = baseClickRate(t) * 0.75^j as numerator and denominator.
EffectNum(j) == c_1_t(t) * 3^j
EffectDen(j) == 4^j

\* b = value - (effect[s] / effect[s-1]) * (value - minBid), for the
\* rational b = <<n, d>>, with both sides multiplied by the denominators.
IsBalancedBid(b, s, minBid) ==
    LET rn == EffectNum(s) * EffectDen(s - 1)
        rd == EffectDen(s) * EffectNum(s - 1)
    IN  b[1] * rd = b[2] * (agent.value * rd - rn * (agent.value - minBid))

\* bid returned for a targeted slot s > 0 with minBid <= value.
BalancedCase(tg) ==
    /\ Returned("rscbb.bid")
    /\ tg[1] > 0
    /\ tg[2] <= agent.value

\* C4 as stated: for a targeted slot s > 0 with minBid <= value the bid is
\* value - (effect[s]/effect[s-1]) * (value - minBid) and lies strictly
\* inside (minBid, value).
C4_AsStated ==
    LET tg == BBTarget
    IN  BalancedCase(tg)
          => /\ IsBalancedBid(out.val, tg[1], tg[2])
             /\ RatLT(RatInt(tg[2]), out.val)
             /\ RatLT(out.val, RatInt(agent.value))

\* C4 amended: for a targeted slot s > 0 with minBid <= value the bid is
\* value - (effect[s]/effect[s-1]) * (value - minBid); it lies strictly
\* inside (minBid, value) when minBid < value and equals value when
\* minBid = value.
C4_Amended ==
    LET tg == BBTarget
    IN  BalancedCase(tg)
          => /\ IsBalancedBid(out.val, tg[1], tg[2])
             /\ tg[2] < agent.value
                  => /\ RatLT(RatInt(tg[2]), out.val)
                     /\ RatLT(out.val, RatInt(agent.value))
             /\ tg[2] = agent.value => out.val = RatInt(agent.value)

\* value 100 against competitor bids 60 and 40: slot 1, minBid 40, bid 55.
C4_Witness ==
    LET tg == BBTarget
    IN  /\ BalancedCase(tg)
        /\ agent.value = 100
        /\ tg[1] = 1
        /\ tg[2] = 40
        /\ out.val = <<55, 1>>

\* C5: bid returns exactly self.value when the targeted slot's minBid is
\* greater than value, whatever the slot, and when the targeted slot is 0.
C5_BidsValue ==
    LET tg == BBTarget
    IN  (Returned("rscbb.bid") /\ (tg[2] > agent.value \/ tg[1] = 0))
          => out.val = <<agent.value, 1>>

\* A slot below the top priced above value.
C5_Witness ==
    LET tg == BBTarget
    IN  /\ Returned("rscbb.bid")
        /\ tg[1] > 0
        /\ tg[2] > agent.value
        /\ out.val = <<agent.value, 1>>

\* C6: with t >= 1, non-negative bids in round t-1, reserve >= 0 and
\* value > 0, a returned bid b satisfies 0 <= b <= value.
C6_WithinValue ==
    Returned("rscbb.bid")
        => /\ RatLE(RatInt(0), out.val)
           /\ RatLE(out.val, RatInt(agent.value))

\* The scenario value 100, reserve 0, round-0 bids 60 and 40, clicks
\* [10, 5], t = 1.
C6_Witness ==
    /\ Returned("rscbb.bid")
    /\ agent.value = 100
    /\ reserve = 0
    /\ t = 1
    /\ Ascending = <<40, 60>>
    /\ prev_round.clicks = <<10, 5>>
    /\ RatLE(RatInt(0), out.val)
    /\ RatLE(out.val, RatInt(100))

-----------------------------------------------------------------------------
(* Properties of both classes, under Spec *)

TargetSlotCalled ==
    pc = "done" /\ op \in {"rscbb.target_slot", "rscbudget.target_slot"}

SlotInfoCalled ==
    pc = "done" /\ op \in {"rscbb.slot_info", "rscbudget.slot_info"}

BidCalled == pc = "done" /\ op \in {"rscbb.bid", "rscbudget.bid"}

\* What target_slot of the called class reads: the utilities, the index it
\* takes from them and the slot descriptors it looks the index up in.
UtilsRead ==
    IF op = "rscbb.target_slot"
    THEN rscbb_expected_utils(agent, t, prev_round, reserve)
    ELSE rscbudget_expected_utils(agent, t, prev_round, reserve)

InfoRead ==
    IF op = "rscbb.target_slot"
    THEN rscbb_slot_info(agent, t, prev_round, reserve)
    ELSE rscbudget_slot_info(agent, t, prev_round, reserve)

Min(a, b) == IF a < b THEN a ELSE b

\* C2: with a non-empty competitor set the index target_slot takes from the
\* utilities lies in [0, min(len(slot_info), len(expected_utils))), whatever
\* the numbers of competitors and slots, so the lookup info[i] succeeds.
C2_IndexInRange ==
    (TargetSlotCalled /\ Len(Competitors) >= 1)
        => /\ argmax_index(UtilsRead).err = "ok"
           /\ argmax_index(UtilsRead).val >= 0
           /\ argmax_index(UtilsRead).val < Min(Len(InfoRead), Len(UtilsRead))
           /\ out.err = "ok"

C9_EmptyRaises ==
    (BidCalled /\ Len(Competitors) = 0) => out.err # "ok"

C9_Witness ==
    /\ Raised("rscbudget.bid")
    /\ InCoolDown
    /\ Len(Competitors) = 0
    /\ Len(prev_round.bids) = 1

=============================================================================
